---- MODULE Spec2Model ----
(***************************************************************************)
(* The concurrent download engine of pybookget:                            *)
(*   pybookget/http/download.py  DownloadTask, DownloadManager             *)
(*   pybookget/http/client.py    create_retry_decorator, download_file     *)
(*                                                                         *)
(* One asyncio event loop runs execute() and the coroutines it creates.    *)
(* Code between two awaits runs without interruption, so every action is   *)
(* the code from one suspension point to the next: awaiting the semaphore, *)
(* the response of client.get, tenacity's backoff sleep, the rate-limit    *)
(* sleep, and execute() awaiting the next completed coroutine.             *)
(*                                                                         *)
(* Every task has its own save_path (the handler layer numbers the files), *)
(* so the file at a task's save_path is kept with the task.                *)
(***************************************************************************)
EXTENDS Integers, Sequences, FiniteSets, TLC

\* ------------------------------------------------------------------ bounds
MaxTasks == 2
MaxWorkers == 2
MaxRetries == 2
\* max_retries of the runs that look at one task's retry policy alone.
MaxAttempts == 5
\* The longest list of image URLs, and the largest number in a page range.
MaxPage == 3
\* The most URLs in the file of the batch command, and the largest --concurrent.
MaxUrls == 3
MaxConcurrent == 2

TaskIds == 1..MaxTasks

\* What one client.get() can end in: a 2xx response, a response whose
\* raise_for_status() raises httpx.HTTPStatusError (404, or another status such
\* as 500), or a transport error (httpx.NetworkError / httpx.TimeoutException).
Responses == {"ok", "http404", "http500", "network"}

\* Path.write_bytes opens the file for writing (creating it) and then writes:
\* it can fail before the file is created or after.
WriteOutcomes == {"written", "open_fails", "write_fails"}

\* The callback given to execute(): none, one that returns, one that may raise.
Callbacks == {"none", "returns", "raises"}

VARIABLES
    config,          \* Config + DownloadManager.__init__: max_workers, max_retries, sleep_interval
    tasks,           \* self.tasks: the queue, a sequence of task ids
    co,              \* per task: the DownloadTask, the file at its save_path and its coroutine
    exec_pc,         \* the latest execute() call: "none", "running", "returned", "raised"
    callback,        \* the callback argument of the running execute()
    download_tasks,  \* execute(): the coroutines created at line 124 (their task ids)
    semaphore,       \* execute(): free slots of asyncio.Semaphore(self.max_workers)
    completed,       \* asyncio.as_completed: finished coroutines, in completion order
    loop_i,          \* execute(): iterations of the for loop done so far
    successful,      \* execute(): successful
    failed,          \* execute(): failed
    callback_log,    \* the calls callback(task, success) made so far, in order
    client,          \* the httpx.AsyncClient of execute(): "none", "open", "closed"
    returned,        \* value returned by the latest execute() ("none" while running)
    handler,         \* handler layer: the DownloadTasks built from a list of image URLs
    cli              \* the "batch" command: download_all() and its per-URL coroutines

vars == <<config, tasks, co, exec_pc, callback, download_tasks, semaphore,
          completed, loop_i, successful, failed, callback_log, client, returned,
          handler, cli>>

\* ------------------------------------------------------- DownloadTask state
\* pc: "new" (not constructed), "queued" (in self.tasks, or discarded by clear),
\*     "waiting" (coroutine created, not yet inside the semaphore),
\*     "get" (awaiting client.get), "backoff" (tenacity waits before a retry),
\*     "sleep" (asyncio.sleep(sleep_interval)), "done" (coroutine finished).
\* coroutines: how many download_with_semaphore(task) coroutines execute()
\*     calls have created for the task (line 124).
\* "fetch_ok"/"fetch_raised" mark download_file returning/raising inside one
\* step; the code of _download_single that follows consumes them at once.
NewTask ==
    [pc |-> "new", fallback_url |-> FALSE, file |-> "absent",
     hop |-> "none", exc |-> "none", primary_exc |-> "none", result |-> "none",
     req_primary |-> 0, req_fallback |-> 0, fetches |-> 0, existed |-> FALSE,
     writes |-> 0, slept |-> 0, waits |-> <<>>, coroutines |-> 0]

Inside(c) == c.pc \in {"get", "backoff", "sleep"}

\* ------------------------------------------------ client.py: retry policy
\* retry_if_exception_type((httpx.HTTPError, httpx.TimeoutException,
\* httpx.NetworkError)): httpx.HTTPStatusError, raised by raise_for_status(),
\* is a subclass of httpx.HTTPError, as are the transport errors. OSError is not.
HTTPStatusErrors == {"http404", "http500"}

retry_if_exception_type(e) == e \in HTTPStatusErrors \cup {"network"}

\* A guard that lets one attempt too many through.
stop_after_attempt_one_more(n) == n > config.max_retries

\* stop_after_attempt(config.max_retries): stop once attempt_number >= max_retries.
stop_after_attempt(n) == n >= config.max_retries

\* Config defaults of the backoff (config.py lines 45-47), in seconds.
retry_wait_min == 1
retry_wait_max == 10
retry_multiplier == 2

RECURSIVE Pow(_, _)
Pow(b, e) == IF e = 0 THEN 1 ELSE b * Pow(b, e - 1)
Max2(a, b) == IF a >= b THEN a ELSE b
Min2(a, b) == IF a <= b THEN a ELSE b

\* The exponent counts from the attempt number itself: the first wait doubles.
wait_exponential_from_one(n) ==
    Max2(Max2(0, retry_wait_min), Min2(retry_multiplier * Pow(2, n), retry_wait_max))

\* wait_exponential(multiplier=retry_multiplier, min=retry_wait_min,
\* max=retry_wait_max) after the failed attempt n: tenacity computes
\* multiplier * exp_base ** (n - 1) with exp_base = 2, and clamps it to [min, max].
wait_exponential(n) ==
    Max2(Max2(0, retry_wait_min), Min2(retry_multiplier * Pow(2, n - 1), retry_wait_max))

\* One attempt counter for the whole task: the fallback inherits the attempts
\* that the primary used up.
attempt_number_shared(c) == c.req_primary + c.req_fallback

\* tenacity's attempt_number of the running download_file call: the GETs it issued.
attempt_number(c) == IF c.hop = "fallback" THEN c.req_fallback ELSE c.req_primary

\* ------------------------------------------------ client.py: download_file
\* Two GETs are issued at once: the retry does not wait for the attempt before it.
client_get_twice(c) ==
    IF c.hop = "fallback"
    THEN [c EXCEPT !.pc = "get", !.exc = "none", !.req_fallback = @ + 2]
    ELSE [c EXCEPT !.pc = "get", !.exc = "none", !.req_primary = @ + 2]

\* line 135: response = await client.get(url, headers=headers)
client_get(c) ==
    IF c.hop = "fallback"
    THEN [c EXCEPT !.pc = "get", !.exc = "none", !.req_fallback = @ + 1]
    ELSE [c EXCEPT !.pc = "get", !.exc = "none", !.req_primary = @ + 1]

\* download_file without the exists() check of lines 120-122.
download_file_no_skip(c, url, mkdir_ok) ==
    LET c1 == [c EXCEPT !.hop = url, !.exc = "none", !.fetches = @ + 1,
                        !.waits = <<>>,
                        !.existed = IF url = "primary" THEN c.file # "absent" ELSE @]
    IN  IF ~mkdir_ok THEN [c1 EXCEPT !.pc = "fetch_raised", !.exc = "os"]
        ELSE client_get(c1)

\* lines 120-140, up to the first await: the exists() check, mkdir, the first GET.
download_file(c, url, mkdir_ok) ==
    LET c1 == [c EXCEPT !.hop = url, !.exc = "none", !.fetches = @ + 1,
                        !.waits = <<>>,
                        !.existed = IF url = "primary" THEN c.file # "absent" ELSE @]
    IN  IF c1.file # "absent" THEN [c1 EXCEPT !.pc = "fetch_ok"]
        ELSE IF ~mkdir_ok THEN [c1 EXCEPT !.pc = "fetch_raised", !.exc = "os"]
        ELSE client_get(c1)

\* The write is inside the retried function: an OSError is followed by a backoff
\* and another GET.
write_bytes_retried(c, w) ==
    CASE w = "written"     -> [c EXCEPT !.pc = "fetch_ok", !.file = "complete", !.writes = @ + 1]
      [] w = "open_fails"  -> [c EXCEPT !.pc = "backoff", !.exc = "os"]
      [] w = "write_fails" -> [c EXCEPT !.pc = "backoff", !.exc = "os",
                                        !.file = "partial", !.writes = @ + 1]

\* line 143: dest_path.write_bytes(content)
write_bytes(c, w) ==
    CASE w = "written"     -> [c EXCEPT !.pc = "fetch_ok", !.file = "complete", !.writes = @ + 1]
      [] w = "open_fails"  -> [c EXCEPT !.pc = "fetch_raised", !.exc = "os"]
      [] w = "write_fails" -> [c EXCEPT !.pc = "fetch_raised", !.exc = "os",
                                        !.file = "partial", !.writes = @ + 1]

\* lines 131-145, resumed with the outcome r of the awaited GET: the body is
\* written, or the error is retried by tenacity (backoff) or re-raised.
download_file_resume(c, r, w) ==
    IF r = "ok" THEN write_bytes([c EXCEPT !.exc = "none"], w)
    ELSE IF retry_if_exception_type(r) /\ ~stop_after_attempt(attempt_number(c))
         THEN [c EXCEPT !.pc = "backoff", !.exc = r,
                        !.waits = Append(@, wait_exponential(attempt_number(c)))]
         ELSE [c EXCEPT !.pc = "fetch_raised", !.exc = r]

\* ------------------------------------------- download.py: _download_single
Return(c, value) == [c EXCEPT !.pc = "done", !.result = value]

\* No rate limiting: the coroutine returns at once.
rate_limit_no_sleep(c) == Return(c, "True")

\* lines 179-184 and 199-203: rate limiting after a successful download_file.
rate_limit(c) ==
    IF config.sleep_interval > 0 THEN [c EXCEPT !.pc = "sleep", !.slept = @ + 1]
    ELSE Return(c, "True")

\* A handler that catches the httpx errors only ("except httpx.HTTPError").
except_httpx_only(e) == e \in HTTPStatusErrors \cup {"network"}

\* "except Exception" (lines 205 and 212) catches every error of the model:
\* the httpx errors and OSError are all subclasses of Exception.
except_Exception(e) == e \in HTTPStatusErrors \cup {"network", "os"}

\* The fallback's except clause swallows the error and reports success.
after_fallback_swallows(c) ==
    CASE c.pc = "fetch_ok"     -> rate_limit(c)
      [] c.pc = "fetch_raised" -> Return(c, "True")
      [] OTHER                 -> c

\* lines 190-207: the code after the fallback download_file returned or raised.
\* An exception that no handler catches leaves the coroutine ("raised").
after_fallback(c) ==
    CASE c.pc = "fetch_ok"     -> rate_limit(c)
      [] c.pc = "fetch_raised" ->
            IF except_Exception(c.exc) THEN Return(c, "False") ELSE Return(c, "raised")
      [] OTHER                 -> c

\* The fallback is tried on any HTTP status error, not only on 404.
tries_fallback_any_status(c) == c.fallback_url

\* line 188: the condition under which the fallback URL is tried.
tries_fallback(c) == c.exc = "http404" /\ c.fallback_url

\* lines 170-214: the code after the primary download_file returned or raised.
after_primary(c, mkdir_ok) ==
    CASE c.pc = "fetch_ok"     -> rate_limit(c)
      [] c.pc = "fetch_raised" ->
            LET c1 == [c EXCEPT !.primary_exc = c.exc]
            IN  IF c.exc \in HTTPStatusErrors
                THEN IF tries_fallback(c)
                     THEN after_fallback(download_file(c1, "fallback", mkdir_ok))
                     ELSE Return(c1, "False")
                ELSE IF except_Exception(c.exc) THEN Return(c1, "False")
                     ELSE Return(c1, "raised")
      [] OTHER                 -> c

\* _download_single resumed after a download_file step of the current hop.
download_single_resume(c, mkdir_ok) ==
    IF c.hop = "fallback" THEN after_fallback(c) ELSE after_primary(c, mkdir_ok)

\* ------------------------------------------------------------ construction
\* Config() and DownloadManager.__init__ (lines 64-67): an empty queue.
\* max_workers >= 1 and max_retries >= 1 here; sleep_interval is 0 or 1 second;
\* show_progress is off, so execute() creates no progress bar.
\* No handler has built tasks and no batch command runs.
NoHandler == [called |-> "none", image_urls |-> 0, start_index |-> 1, tasks |-> <<>>]
NoCli ==
    [pc |-> "none", concurrent |-> 0, book |-> <<>>, semaphore |-> 0,
     completed |-> <<>>, awaited |-> 0, successful |-> 0, failed |-> 0]

InitManager ==
    /\ handler = NoHandler
    /\ cli = NoCli
    /\ tasks = <<>>
    /\ co = [t \in TaskIds |-> NewTask]
    /\ exec_pc = "none"
    /\ callback = "none"
    /\ download_tasks = <<>>
    /\ semaphore = 0
    /\ completed = <<>>
    /\ loop_i = 0
    /\ successful = 0
    /\ failed = 0
    /\ callback_log = <<>>
    /\ client = "none"
    /\ returned = "none"

Init ==
    /\ config \in [max_workers : 1..MaxWorkers, max_retries : 1..MaxRetries,
                   sleep_interval : {0, 1}]
    /\ InitManager

exec_vars == <<exec_pc, callback, download_tasks, semaphore, completed, loop_i,
               successful, failed, callback_log, client, returned>>

\* ---------------------------------------------------- the manager's queue
\* add_task(task) (lines 69-75), with a DownloadTask built by the caller: with
\* or without fallback_url, its save_path already on disk or not.
add_task(t, fb, f) ==
    /\ exec_pc # "running"
    /\ co[t].pc = "new"
    /\ \A u \in TaskIds : u < t => co[u].pc # "new"
    /\ co' = [co EXCEPT ![t] = [@ EXCEPT !.pc = "queued", !.fallback_url = fb, !.file = f]]
    /\ tasks' = Append(tasks, t)
    /\ UNCHANGED <<handler, cli, config, exec_vars>>

\* The DownloadTasks constructed so far: ids are handed out in increasing order.
Constructed == {t \in TaskIds : co[t].pc # "new"}

\* The lists of at most n DownloadTasks a caller can build.
TaskLists(n) ==
    UNION {[1..k -> [fallback_url : BOOLEAN, file : {"absent", "complete"}]] : k \in 0..n}

\* The list replaces the queue instead of extending it.
add_tasks_replaces(new_tasks) ==
    LET c == Cardinality(Constructed)
    IN  /\ exec_pc # "running"
        /\ c + Len(new_tasks) <= MaxTasks
        /\ co' = [t \in TaskIds |->
                    IF t > c /\ t <= c + Len(new_tasks)
                    THEN [co[t] EXCEPT !.pc = "queued",
                                       !.fallback_url = new_tasks[t - c].fallback_url,
                                       !.file = new_tasks[t - c].file]
                    ELSE co[t]]
        /\ tasks' = [k \in 1..Len(new_tasks) |-> c + k]
        /\ UNCHANGED <<handler, cli, config, exec_vars>>

\* add_tasks(tasks) (lines 77-83): self.tasks.extend(tasks), with a list of
\* DownloadTasks built by the caller.
add_tasks(new_tasks) ==
    LET c == Cardinality(Constructed)
    IN  /\ exec_pc # "running"
        /\ c + Len(new_tasks) <= MaxTasks
        /\ co' = [t \in TaskIds |->
                    IF t > c /\ t <= c + Len(new_tasks)
                    THEN [co[t] EXCEPT !.pc = "queued",
                                       !.fallback_url = new_tasks[t - c].fallback_url,
                                       !.file = new_tasks[t - c].file]
                    ELSE co[t]]
        /\ tasks' = tasks \o [k \in 1..Len(new_tasks) |-> c + k]
        /\ UNCHANGED <<handler, cli, config, exec_vars>>

\* clear() (lines 216-218)
clear ==
    /\ exec_pc # "running"
    /\ tasks # <<>>
    /\ tasks' = <<>>
    /\ UNCHANGED <<handler, cli, config, co, exec_vars>>

\* ----------------------------------------------------------- execute()
\* The emptiness check comes after create_client: a client is left open.
execute_empty_creates_client ==
    /\ exec_pc # "running"
    /\ tasks = <<>>
    /\ exec_pc' = "returned"
    /\ returned' = 0
    /\ callback' = "none"
    /\ download_tasks' = <<>>
    /\ completed' = <<>>
    /\ callback_log' = <<>>
    /\ loop_i' = 0 /\ successful' = 0 /\ failed' = 0 /\ semaphore' = 0
    /\ client' = "open"
    /\ UNCHANGED <<handler, cli, config, tasks, co>>

\* lines 100-102: nothing queued.
execute_empty ==
    /\ exec_pc # "running"
    /\ tasks = <<>>
    /\ exec_pc' = "returned"
    /\ returned' = 0
    /\ callback' = "none"
    /\ download_tasks' = <<>>
    /\ completed' = <<>>
    /\ callback_log' = <<>>
    /\ loop_i' = 0 /\ successful' = 0 /\ failed' = 0 /\ semaphore' = 0
    /\ client' = "none"
    /\ UNCHANGED <<handler, cli, config, tasks, co>>

\* lines 104-127, up to the first "await coro": one coroutine per queued task.
execute_begin(cb) ==
    /\ exec_pc # "running"
    /\ tasks # <<>>
    /\ config.max_workers >= 0
    /\ \A k \in 1..Len(tasks) : co[tasks[k]].coroutines = 0   \* a DownloadTask is executed once
    /\ exec_pc' = "running"
    /\ callback' = cb
    /\ successful' = 0 /\ failed' = 0
    /\ client' = "open"
    /\ semaphore' = config.max_workers
    /\ download_tasks' = tasks
    /\ co' = [t \in TaskIds |->
                IF \E k \in 1..Len(tasks) : tasks[k] = t
                THEN [co[t] EXCEPT !.pc = "waiting", !.coroutines = @ + 1] ELSE co[t]]
    /\ completed' = <<>>
    /\ loop_i' = 0
    /\ callback_log' = <<>>
    /\ returned' = "none"
    /\ UNCHANGED <<handler, cli, config, tasks>>

\* A coroutine's step took it from c to d: leaving "async with semaphore"
\* releases the slot, and as_completed queues the finished coroutine.
settle(t, d, slots) ==
    /\ co' = [co EXCEPT ![t] = d]
    /\ IF d.pc = "done"
       THEN /\ semaphore' = slots + 1
            /\ completed' = Append(completed, t)
       ELSE /\ semaphore' = slots
            /\ UNCHANGED completed
    /\ UNCHANGED <<handler, cli, config, tasks, exec_pc, callback, download_tasks, loop_i,
                   successful, failed, callback_log, client, returned>>

\* A guard that is off by one: a slot is handed out when none is left.
can_acquire_off_by_one == semaphore >= 0

\* line 120: the slot can be taken.
can_acquire == semaphore > 0

\* lines 119-121 and 170-177: the coroutine enters the semaphore and runs
\* _download_single up to its first await. asyncio.as_completed schedules the
\* coroutines from a set, so they reach the semaphore in no particular order.
acquire(t) ==
    /\ exec_pc = "running"
    /\ co[t].pc = "waiting"
    /\ can_acquire
    /\ \E mkdir_ok \in BOOLEAN :
          settle(t, after_primary(download_file(co[t], "primary", mkdir_ok), mkdir_ok),
                 semaphore - 1)

\* client.get() completes with outcome r (client.py lines 135-145); should the
\* body be written, the write ends as w; should the fallback start, mkdir_ok.
response(t) ==
    /\ exec_pc = "running"
    /\ co[t].pc = "get"
    /\ \E r \in Responses, w \in WriteOutcomes, mkdir_ok \in BOOLEAN :
          settle(t, download_single_resume(download_file_resume(co[t], r, w), mkdir_ok),
                 semaphore)

\* tenacity's wait is over: the next attempt's GET is issued.
backoff_elapsed(t) ==
    /\ exec_pc = "running"
    /\ co[t].pc = "backoff"
    /\ settle(t, client_get(co[t]), semaphore)

\* asyncio.sleep(sleep_interval) is over: line 184 / 203, return True.
sleep_elapsed(t) ==
    /\ exec_pc = "running"
    /\ co[t].pc = "sleep"
    /\ settle(t, Return(co[t], "True"), semaphore)

\* line 127: the task that zip() pairs with the k-th completed coroutine.
zip_task(k) == tasks[k]

\* The callback is called for successful tasks only.
calls_callback_on_success(success) == callback # "none" /\ success

\* line 136: "if callback:"
calls_callback(success) == callback # "none"

\* No except clause around the callback: its exception ends execute().
loop_iteration_callback_aborts(raises) ==
    /\ exec_pc = "running"
    /\ loop_i < Len(download_tasks)
    /\ loop_i < Len(tasks)
    /\ loop_i < Len(completed)
    /\ LET task == zip_task(loop_i + 1)
           outcome == co[completed[loop_i + 1]].result
           success == outcome = "True"
           called == outcome # "raised" /\ calls_callback(success)
       IN  /\ raises => called /\ callback = "raises"
           /\ successful' = IF success THEN successful + 1 ELSE successful
           /\ failed' = IF success THEN failed ELSE failed + 1
           /\ callback_log' = IF called
                              THEN Append(callback_log, <<task, success>>)
                              ELSE callback_log
    /\ loop_i' = loop_i + 1
    /\ exec_pc' = IF raises THEN "raised" ELSE exec_pc
    /\ client' = IF raises THEN "closed" ELSE client
    /\ UNCHANGED <<handler, cli, config, tasks, co, callback, download_tasks, semaphore,
                   completed, returned>>

\* lines 127-146: one iteration of the for loop; "await coro" yields the result
\* of the next coroutine in completion order, or raises what the coroutine
\* raised (lines 139-141). The callback, when called, returns or raises; an
\* exception of the callback is caught by the same except clause.
loop_iteration(raises) ==
    /\ exec_pc = "running"
    /\ loop_i < Len(download_tasks)
    /\ loop_i < Len(tasks)
    /\ loop_i < Len(completed)
    /\ LET task == zip_task(loop_i + 1)
           outcome == co[completed[loop_i + 1]].result
           success == outcome = "True"
           called == outcome # "raised" /\ calls_callback(success)
       IN  /\ raises => called /\ callback = "raises"
           /\ successful' = IF success THEN successful + 1 ELSE successful
           /\ failed' = (IF success THEN failed ELSE failed + 1) + (IF raises THEN 1 ELSE 0)
           /\ callback_log' = IF called
                              THEN Append(callback_log, <<task, success>>)
                              ELSE callback_log
    /\ loop_i' = loop_i + 1
    /\ UNCHANGED <<handler, cli, config, tasks, co, exec_pc, callback, download_tasks, semaphore,
                   completed, client, returned>>

\* The loop stops one iteration early: the last result is never awaited.
loop_exhausted_early == loop_i >= Len(download_tasks) - 1

\* line 127: zip() is exhausted.
loop_exhausted == loop_i >= Len(download_tasks) \/ loop_i >= Len(tasks)

\* execute() returns without line 154: the queue keeps the finished tasks.
execute_end_keeps_queue ==
    /\ exec_pc = "running"
    /\ loop_exhausted
    /\ client' = "closed"
    /\ returned' = successful
    /\ exec_pc' = "returned"
    /\ UNCHANGED <<handler, cli, config, tasks, co, callback, download_tasks, semaphore, completed,
                   loop_i, successful, failed, callback_log>>

\* lines 148-157: finally, clear the queue, return.
execute_end ==
    /\ exec_pc = "running"
    /\ loop_exhausted
    /\ client' = "closed"
    /\ tasks' = <<>>
    /\ returned' = successful
    /\ exec_pc' = "returned"
    /\ UNCHANGED <<handler, cli, config, co, callback, download_tasks, semaphore, completed, loop_i,
                   successful, failed, callback_log>>

Next ==
    \/ \E t \in TaskIds, fb \in BOOLEAN, f \in {"absent", "complete"} : add_task(t, fb, f)
    \/ \E new_tasks \in TaskLists(MaxTasks) : add_tasks(new_tasks)
    \/ clear
    \/ execute_empty
    \/ \E cb \in Callbacks : execute_begin(cb)
    \/ \E t \in TaskIds : acquire(t)
    \/ \E t \in TaskIds : response(t)
    \/ \E t \in TaskIds : backoff_elapsed(t)
    \/ \E t \in TaskIds : sleep_elapsed(t)
    \/ \E raises \in BOOLEAN : loop_iteration(raises)
    \/ execute_end

Spec == Init /\ [][Next]_vars

\* ------------------------------------------- any constructor arguments
\* __init__ line 65: self.max_workers = max_workers or config.threads_per_task.
\* A max_workers argument of None or 0 is falsy (0 stands for both here).
init_max_workers(max_workers, threads_per_task) ==
    IF max_workers # 0 THEN max_workers ELSE threads_per_task

\* DownloadManager(config, max_workers) for any integers: __init__ checks nothing.
InitAny ==
    /\ \E max_workers \in -1..MaxWorkers, threads_per_task \in -1..MaxWorkers :
          config \in [max_workers : {init_max_workers(max_workers, threads_per_task)},
                      max_retries : 1..MaxRetries, sleep_interval : {0, 1}]
    /\ InitManager

\* execute() with self.max_workers < 0: asyncio.Semaphore(value) at line 117
\* raises ValueError inside the try; the finally clause closes the client and
\* the exception leaves execute() before line 154, so the queue is kept.
execute_ValueError ==
    /\ exec_pc # "running"
    /\ tasks # <<>>
    /\ config.max_workers < 0
    /\ exec_pc' = "raised"
    /\ returned' = "none"
    /\ callback' = "none"
    /\ download_tasks' = <<>>
    /\ completed' = <<>>
    /\ callback_log' = <<>>
    /\ loop_i' = 0 /\ successful' = 0 /\ failed' = 0 /\ semaphore' = 0
    /\ client' = "closed"
    /\ UNCHANGED <<handler, cli, config, tasks, co>>

NextAny == Next \/ execute_ValueError

SpecAny == InitAny /\ [][NextAny]_vars

\* ------------------------------------- callers that overlap with execute()
\* add_task(task) called while execute() is suspended at an await (from another
\* coroutine of the event loop): line 75 appends to the list that the running
\* zip() of line 127 iterates and that line 154 replaces.
add_task_during_execute(t, fb, f) ==
    /\ exec_pc = "running"
    /\ co[t].pc = "new"
    /\ \A u \in TaskIds : u < t => co[u].pc # "new"
    /\ co' = [co EXCEPT ![t] = [@ EXCEPT !.pc = "queued", !.fallback_url = fb, !.file = f]]
    /\ tasks' = Append(tasks, t)
    /\ UNCHANGED <<handler, cli, config, exec_vars>>

\* A second execute() call that starts while the first is suspended at an
\* await (asyncio.gather(m.execute(), m.execute())): lines 100-127 up to its
\* first await. self.tasks is still the first call's batch, so line 124 creates
\* a second coroutine for each of its DownloadTasks, with a client and a
\* semaphore of its own. The steps of those coroutines are the ones of the first
\* call's and are not followed further.
execute_overlapping ==
    /\ exec_pc = "running"
    /\ tasks # <<>>
    /\ config.max_workers >= 0
    /\ \A t \in TaskIds : co[t].coroutines <= 1
    /\ co' = [t \in TaskIds |->
                IF \E k \in 1..Len(tasks) : tasks[k] = t
                THEN [co[t] EXCEPT !.coroutines = @ + 1] ELSE co[t]]
    /\ UNCHANGED <<handler, cli, config, tasks, exec_vars>>

NextOverlap ==
    \/ Next
    \/ \E t \in TaskIds, fb \in BOOLEAN, f \in {"absent", "complete"} :
          add_task_during_execute(t, fb, f)
    \/ execute_overlapping

SpecOverlap == Init /\ [][NextOverlap]_vars

\* ------------------------------------------------ handler layer: page range
\* A page_range string is kept as the list of its ':'-separated integers:
\* "2:3" is <<2, 3>>, "2" is <<2>>, None is <<>>. An optional integer
\* (page_start, page_end) is <<>> for None and <<n>> for n.
PageRanges == UNION {[1..k -> 0..MaxPage] : k \in 0..2}

\* Config.__post_init__ and _parse_page_range (config.py lines 72-73, 86-97):
\* the bounds are set only when the string has exactly two parts.
parse_page_range(page_range) ==
    IF page_range # <<>> /\ Len(page_range) = 2
    THEN [page_start |-> <<page_range[1]>>, page_end |-> <<page_range[2]>>]
    ELSE [page_start |-> <<>>, page_end |-> <<>>]

\* Config.is_page_in_range (config.py lines 119-130)
is_page_in_range(page_num) ==
    IF config.page_start = <<>> \/ config.page_end = <<>> THEN TRUE
    ELSE config.page_start[1] <= page_num /\ page_num <= config.page_end[1]

\* str(n) for n >= 0, as the list of its decimal digits.
RECURSIVE str(_)
str(n) == IF n < 10 THEN <<n>> ELSE Append(str(n \div 10), n % 10)

\* s.zfill(width): zeros are put in front of a shorter s.
zfill(s, width) == [k \in 1..(Max2(width, Len(s)) - Len(s)) |-> 0] \o s

\* The loops of base.py lines 177-194 and iiif.py lines 286-303: the URL at
\* position k has idx = start_index + k - 1; a task is built for it when
\* is_page_in_range(idx), its filename from str(idx).zfill(4).
build_tasks(image_urls, start_index) ==
    LET page(k) == [url |-> k, idx |-> start_index + k - 1,
                    filename |-> zfill(str(start_index + k - 1), 4)]
        kept(p) == is_page_in_range(p.idx)
    IN  SelectSeq([k \in 1..image_urls |-> page(k)], kept)

\* BaseHandler.create_download_tasks (base.py lines 153-196) for a list of
\* image_urls URLs.
create_download_tasks(image_urls, start_index) ==
    /\ handler.called = "none"
    /\ handler' = [called |-> "create_download_tasks", image_urls |-> image_urls,
                   start_index |-> start_index,
                   tasks |-> build_tasks(image_urls, start_index)]
    /\ UNCHANGED <<config, tasks, co, exec_vars, cli>>

\* IIIFHandler._download_images_with_fallback (iiif.py lines 285-303): the
\* tasks it builds from the (primary, fallback) pairs and hands to add_tasks.
download_images_with_fallback(image_urls, start_index) ==
    /\ handler.called = "none"
    /\ handler' = [called |-> "_download_images_with_fallback", image_urls |-> image_urls,
                   start_index |-> start_index,
                   tasks |-> build_tasks(image_urls, start_index)]
    /\ UNCHANGED <<config, tasks, co, exec_vars, cli>>

\* Config(page_range=...) for every string of at most two parts.
InitPages ==
    /\ \E page_range \in PageRanges :
          config = [max_workers |-> 1, max_retries |-> 1, sleep_interval |-> 0,
                    page_range |-> page_range,
                    page_start |-> parse_page_range(page_range).page_start,
                    page_end |-> parse_page_range(page_range).page_end]
    /\ InitManager

NextPages ==
    \/ \E image_urls \in 0..MaxPage, start_index \in 0..1 :
          create_download_tasks(image_urls, start_index)
    \/ \E image_urls \in 0..MaxPage, start_index \in 0..1 :
          download_images_with_fallback(image_urls, start_index)

SpecPages == InitPages /\ [][NextPages]_vars

\* ------------------------------------------------------ the progress bar
\* Config(show_progress=True), the default (config.py line 67): execute()
\* creates a tqdm bar at lines 110-113 and updates it once per loop iteration.
InitProgress ==
    /\ config \in [max_workers : 1..MaxWorkers, max_retries : 1..MaxRetries,
                   sleep_interval : {0, 1}, show_progress : {TRUE}]
    /\ InitManager

\* One iteration of the for loop (lines 127-141) whose pbar.update(1) or
\* pbar.set_postfix(...) raises (lines 143-146): these calls are outside the
\* try of line 128, so the exception leaves the loop, the finally clause of
\* lines 148-151 closes the client, and execute() raises before line 154. The
\* coroutines that as_completed scheduled are not awaited any more.
loop_iteration_pbar_raises(raises) ==
    /\ exec_pc = "running"
    /\ config.show_progress
    /\ loop_i < Len(download_tasks)
    /\ loop_i < Len(tasks)
    /\ loop_i < Len(completed)
    /\ LET task == zip_task(loop_i + 1)
           outcome == co[completed[loop_i + 1]].result
           success == outcome = "True"
           called == outcome # "raised" /\ calls_callback(success)
       IN  /\ raises => called /\ callback = "raises"
           /\ successful' = IF success THEN successful + 1 ELSE successful
           /\ failed' = (IF success THEN failed ELSE failed + 1) + (IF raises THEN 1 ELSE 0)
           /\ callback_log' = IF called
                              THEN Append(callback_log, <<task, success>>)
                              ELSE callback_log
    /\ loop_i' = loop_i + 1
    /\ client' = "closed"
    /\ exec_pc' = "raised"
    /\ UNCHANGED <<handler, cli, config, tasks, co, callback, download_tasks, semaphore,
                   completed, returned>>

NextProgress ==
    \/ Next
    \/ \E raises \in BOOLEAN : loop_iteration_pbar_raises(raises)

SpecProgress == InitProgress /\ [][NextProgress]_vars

\* ------------------------------------------------- cli.py: the batch command
\* What "await download_from_url(url, config, handler)" ends in for one book: a
\* result with success set, a result without (or None), or an exception.
BookOutcomes == {"success", "no_success", "raises"}

\* lines 169-176: the file holds no URL.
batch_no_urls ==
    /\ cli.pc = "none"
    /\ cli' = [cli EXCEPT !.pc = "exit_1"]
    /\ UNCHANGED <<config, tasks, co, exec_vars, handler>>

\* batch (lines 147-231) up to the first "await coro" of download_all: the
\* semaphore, one coroutine per URL, successful = failed = 0.
batch(urls, concurrent) ==
    /\ cli.pc = "none"
    /\ cli' = [pc |-> "running", concurrent |-> concurrent,
               book |-> [b \in 1..urls |-> [pc |-> "waiting", outcome |-> "none",
                                            result |-> "none"]],
               semaphore |-> concurrent, completed |-> <<>>, awaited |-> 0,
               successful |-> 0, failed |-> 0]
    /\ UNCHANGED <<config, tasks, co, exec_vars, handler>>

\* Every book is admitted, whatever the semaphore holds.
book_can_acquire_always == TRUE

\* line 201: "async with semaphore" can be entered.
book_can_acquire == cli.semaphore > 0

\* lines 200-203: a book's coroutine enters the semaphore and awaits
\* download_from_url.
book_acquire(b) ==
    /\ cli.pc = "running"
    /\ b \in 1..Len(cli.book)
    /\ cli.book[b].pc = "waiting"
    /\ book_can_acquire
    /\ cli' = [cli EXCEPT !.book[b].pc = "downloading", !.semaphore = @ - 1]
    /\ UNCHANGED <<config, tasks, co, exec_vars, handler>>

\* lines 203-211: download_from_url is over; the coroutine returns True for a
\* result with success, False otherwise and for any exception, and leaves the
\* semaphore.
book_done(b, outcome) ==
    /\ cli.pc = "running"
    /\ b \in 1..Len(cli.book)
    /\ cli.book[b].pc = "downloading"
    /\ cli' = [cli EXCEPT !.book[b] = [pc |-> "done", outcome |-> outcome,
                                       result |-> IF outcome = "success"
                                                  THEN "True" ELSE "False"],
                          !.semaphore = @ + 1,
                          !.completed = Append(@, b)]
    /\ UNCHANGED <<config, tasks, co, exec_vars, handler>>

\* lines 217-223: one iteration of the loop over as_completed(tasks).
batch_loop_iteration ==
    /\ cli.pc = "running"
    /\ cli.awaited < Len(cli.completed)
    /\ LET success == cli.book[cli.completed[cli.awaited + 1]].result = "True"
       IN  cli' = [cli EXCEPT !.awaited = @ + 1,
                              !.successful = IF success THEN @ + 1 ELSE @,
                              !.failed = IF success THEN @ ELSE @ + 1]
    /\ UNCHANGED <<config, tasks, co, exec_vars, handler>>

\* lines 217, 228-230: as_completed is exhausted; asyncio.run returns and the
\* totals are printed.
batch_end ==
    /\ cli.pc = "running"
    /\ cli.awaited = Len(cli.book)
    /\ cli' = [cli EXCEPT !.pc = "ended"]
    /\ UNCHANGED <<config, tasks, co, exec_vars, handler>>

InitBatch ==
    /\ config = [max_workers |-> 1, max_retries |-> 3, sleep_interval |-> 0]
    /\ InitManager

NextBatch ==
    \/ batch_no_urls
    \/ \E urls \in 1..MaxUrls, concurrent \in 1..MaxConcurrent : batch(urls, concurrent)
    \/ \E b \in 1..MaxUrls : book_acquire(b)
    \/ \E b \in 1..MaxUrls, outcome \in BookOutcomes : book_done(b, outcome)
    \/ batch_loop_iteration
    \/ batch_end

SpecBatch == InitBatch /\ [][NextBatch]_vars

\* ---------------------------------------------- one task's retry policy
\* A manager with one worker that is given a single task, with max_retries up
\* to MaxAttempts, so that the backoff reaches retry_wait_max.
InitRetry ==
    /\ config \in [max_workers : {1}, max_retries : 1..MaxAttempts,
                   sleep_interval : {0, 1}]
    /\ InitManager

FirstTask == {t \in TaskIds : \A u \in TaskIds : t <= u}

NextRetry ==
    \/ \E t \in FirstTask, fb \in BOOLEAN, f \in {"absent", "complete"} : add_task(t, fb, f)
    \/ \E new_tasks \in TaskLists(1) : Constructed = {} /\ add_tasks(new_tasks)
    \/ clear
    \/ execute_empty
    \/ \E cb \in Callbacks : execute_begin(cb)
    \/ \E t \in FirstTask : acquire(t)
    \/ \E t \in FirstTask : response(t)
    \/ \E t \in FirstTask : backoff_elapsed(t)
    \/ \E t \in FirstTask : sleep_elapsed(t)
    \/ \E raises \in BOOLEAN : loop_iteration(raises)
    \/ execute_end

SpecRetry == InitRetry /\ [][NextRetry]_vars


\* ======================================================================
\* Properties of one execute() call
\* ======================================================================
Batch == {download_tasks[k] : k \in 1..Len(download_tasks)}
N == Len(download_tasks)
Running == exec_pc = "running"
Returned == exec_pc = "returned" /\ N >= 1
InFetchPhase == {t \in TaskIds : Inside(co[t])}
Succeeded == {t \in Batch : co[t].result = "True"}
Failed == {t \in Batch : co[t].result = "False"}
Occurrences(seq, x) == Cardinality({k \in 1..Len(seq) : seq[k] = x})
CallbackTasks == [k \in 1..Len(callback_log) |-> callback_log[k][1]]

\* C1: at any moment of an execute() run with max_workers >= 1, at most
\* max_workers tasks are inside _download_single (awaiting a primary or
\* fallback GET, a retry backoff or the inter-download sleep), and the free
\* slots plus the tasks inside always add up to max_workers.
C1_ConcurrencyBound ==
    /\ Cardinality(InFetchPhase) <= config.max_workers
    /\ Running => semaphore + Cardinality(InFetchPhase) = config.max_workers

\* C1 witness: every slot is taken while another task of the batch waits.
C1_Witness ==
    /\ Running
    /\ Cardinality(InFetchPhase) = config.max_workers
    /\ \E t \in Batch : co[t].pc = "waiting"

\* C2: when execute() has returned from a batch of N tasks, N outcomes have
\* been awaited and successful + failed = N, whatever the callback does.
C2_CompletionTotality ==
    Returned => /\ loop_i = N
                /\ Len(completed) = N
                /\ successful + failed = N

\* C3: the value execute() returns is the number of tasks of the batch whose
\* own coroutine returned True, and every task of the batch has finished and
\* contributed exactly one outcome.
C3_ReturnsSuccessCount ==
    Returned => /\ returned = Cardinality(Succeeded)
                /\ \A t \in Batch : /\ co[t].pc = "done"
                                    /\ Occurrences(completed, t) = 1
                /\ Len(completed) = N

\* C3 witness: a batch of two, one task fails with a 404 and no fallback, the
\* other succeeds through its fallback; execute() returned 1.
C3_Witness ==
    /\ Returned /\ N = 2 /\ returned = 1
    /\ \E a, b \in Batch :
          /\ co[a].result = "False" /\ co[a].primary_exc = "http404" /\ ~co[a].fallback_url
          /\ co[b].result = "True" /\ co[b].primary_exc = "http404" /\ co[b].hop = "fallback"

\* C4: a task whose save_path existed when its fetch started issues no GET to
\* either URL, never writes the file, which stays as it was, finishes with
\* True, and is counted in the value execute() returns.
C4_ExistingFileSkipped ==
    /\ \A t \in TaskIds :
          co[t].existed =>
             /\ co[t].req_primary = 0 /\ co[t].req_fallback = 0
             /\ co[t].writes = 0 /\ co[t].file = "complete"
             /\ co[t].pc \in {"sleep", "done"}
             /\ co[t].pc = "done" => co[t].result = "True"
    /\ Returned => returned >= Cardinality({t \in Batch : co[t].existed})

\* C4 witness: execute() returned, having counted a task whose file existed.
C4_Witness ==
    /\ Returned /\ returned >= 1
    /\ \E t \in Batch : co[t].existed /\ co[t].pc = "done"

\* C5: once the primary fetch of a task with a fallback URL has failed with
\* 404, the task has made exactly two fetches, the second to the fallback URL;
\* it ends with True iff the fallback fetch raised nothing, and no task ever
\* makes a third fetch.
C5_FallbackCorrectness ==
    \A t \in TaskIds :
       /\ co[t].fetches <= 2
       /\ (co[t].primary_exc = "http404" /\ co[t].fallback_url) =>
             /\ co[t].fetches = 2 /\ co[t].hop = "fallback"
             /\ co[t].pc = "done" =>
                   /\ co[t].result \in {"True", "False"}
                   /\ co[t].result = "True" <=> co[t].exc = "none"

\* C5 witness: two tasks went to their fallback after a 404; the fallback of
\* one succeeded and the fallback of the other failed.
C5_Witness ==
    \E a, b \in TaskIds :
       /\ co[a].primary_exc = "http404" /\ co[a].hop = "fallback" /\ co[a].result = "True"
       /\ co[a].req_fallback >= 1
       /\ co[b].primary_exc = "http404" /\ co[b].hop = "fallback" /\ co[b].result = "False"
       /\ co[b].exc # "none"

\* C6: a primary fetch that fails with a non-404 status, with a network error
\* (after max_retries attempts) or with a filesystem error, and a 404 of a task
\* without fallback URL, end the task with False after that one fetch: no GET
\* is ever issued to the fallback URL.
C6_NoFallbackOnOtherErrors ==
    \A t \in TaskIds :
       (\/ co[t].primary_exc \in {"http500", "network", "os"}
        \/ (co[t].primary_exc = "http404" /\ ~co[t].fallback_url)) =>
          /\ co[t].req_fallback = 0 /\ co[t].fetches = 1 /\ co[t].hop = "primary"
          /\ co[t].pc = "done" /\ co[t].result = "False"
          /\ co[t].primary_exc = "network" => co[t].req_primary = config.max_retries

\* C6 witness: a task that has a fallback URL failed on a 500, another on a
\* network error, and neither touched its fallback URL.
C6_Witness ==
    \E a, b \in TaskIds :
       /\ co[a].fallback_url /\ co[a].primary_exc = "http500" /\ co[a].result = "False"
       /\ co[b].fallback_url /\ co[b].primary_exc = "network" /\ co[b].result = "False"
       /\ co[a].req_fallback = 0 /\ co[b].req_fallback = 0

\* C7: an HTTP status error is never retried: tenacity never waits for a retry
\* after a 404 or a 500, only after a transport error, and a task reaches its
\* fallback after exactly one GET to the primary URL unless transport errors
\* preceded the 404.
C7_StatusErrorNotRetried ==
    \A t \in TaskIds : co[t].pc = "backoff" => co[t].exc = "network"

\* C8: task-level errors are converted into a False result at the per-task
\* boundary: no coroutine raises, a task that ended on an error ended with
\* False and released its slot, so a waiting sibling is never blocked by tasks
\* that are over, and execute() returns with every task of the batch finished.
C8_FailureIsolation ==
    /\ \A t \in TaskIds :
          /\ co[t].result # "raised"
          /\ (co[t].pc = "done" /\ co[t].exc # "none") => co[t].result = "False"
    /\ (Running /\ \E t \in Batch : co[t].pc = "waiting") =>
          (semaphore > 0 \/ InFetchPhase # {})
    /\ Returned => \A t \in Batch : co[t].pc = "done" /\ co[t].result \in {"True", "False"}

\* C8 witness: with one worker, the task that finished first failed on a
\* filesystem error, and its sibling was fetched afterwards and succeeded.
C8_Witness ==
    /\ Returned /\ N = 2 /\ config.max_workers = 1
    /\ co[completed[1]].result = "False" /\ co[completed[1]].exc = "os"
    /\ co[completed[2]].result = "True" /\ co[completed[2]].req_primary >= 1

\* C9: with a callback, execute() calls it once per iteration: never twice for
\* one task, and when execute() returns it has been called N times, once for
\* every task of the batch.
C9_CallbackOncePerTask ==
    /\ \A t \in TaskIds : Occurrences(CallbackTasks, t) <= 1
    /\ (Returned /\ callback # "none") =>
          /\ Len(callback_log) = N
          /\ \A t \in Batch : Occurrences(CallbackTasks, t) = 1

\* C9 witness: execute() returned from a batch of two with a callback, one
\* task having failed and one having succeeded.
C9_Witness ==
    /\ Returned /\ callback # "none" /\ N = 2
    /\ Failed # {} /\ Succeeded # {}
    /\ Len(callback_log) = 2

\* C10: every call callback(T, s) made by execute() reports T's own result, in
\* completion order: the k-th call is for the k-th task to complete, and s is
\* whether that task ended with True.
C10_CallbackReportsOwnResult ==
    \A k \in 1..Len(callback_log) :
       /\ callback_log[k][1] = completed[k]
       /\ Returned => (callback_log[k][2] <=> co[callback_log[k][1]].result = "True")


\* C11: the file at a task's save_path is at every moment either absent or
\* present with the complete response body.
C11_AtomicWrite ==
    \A t \in TaskIds : co[t].file \in {"absent", "complete"}

\* C12: the step in which execute() returns leaves the queue empty, whatever
\* the outcomes were, and an execute() that follows with nothing added since
\* returns 0 without touching any task.
C12_QueueDrained ==
    [][ /\ (Running /\ exec_pc' = "returned") => tasks' = <<>>
        /\ (Returned /\ tasks = <<>>
              /\ (exec_pc' = "running" \/ download_tasks' # download_tasks)) =>
             (exec_pc' = "returned" /\ returned' = 0 /\ co' = co) ]_vars

\* C12 witness: a batch with one success and one failure was executed, and a
\* second execute() with nothing added has returned 0.
C12_Witness ==
    /\ exec_pc = "returned" /\ N = 0 /\ returned = 0 /\ tasks = <<>>
    /\ \E a, b \in TaskIds : /\ co[a].pc = "done" /\ co[a].result = "True"
                             /\ co[b].pc = "done" /\ co[b].result = "False"

\* C15: execute() on an empty queue returns 0 in one step: it does not raise,
\* creates no client, starts no coroutine and no request, calls no callback.
C15_EmptyBatchReturnsZero ==
    [][ (~Running /\ tasks = <<>> /\ exec_vars' # exec_vars) =>
           /\ exec_pc' = "returned" /\ returned' = 0
           /\ client' = "none" /\ callback_log' = <<>> /\ download_tasks' = <<>>
           /\ co' = co /\ tasks' = <<>> ]_vars

\* C15 witness: execute() was called on a manager to which no task was ever
\* added, and returned 0.
C15_Witness ==
    /\ exec_pc = "returned" /\ N = 0 /\ returned = 0 /\ client = "none"
    /\ \A t \in TaskIds : co[t].pc = "new"


\* ======================================================================
\* Properties of the retry policy (one download_file call)
\* ======================================================================
\* C13 as written: the wait before the k-th retry is
\* min(retry_wait_max, retry_wait_min * retry_multiplier^(k-1)).
C13_BackoffAsSpecified ==
    \A t \in TaskIds : \A k \in 1..Len(co[t].waits) :
       co[t].waits[k] = Min2(retry_wait_max, retry_wait_min * Pow(retry_multiplier, k - 1))

\* C13, amended: the wait before the k-th retry is
\* max(retry_wait_min, min(retry_wait_max, retry_multiplier * 2^(k-1))), that is
\* 2, 4, 8, 10, 10, ... seconds with the defaults, each <= retry_wait_max; there
\* is one wait between two consecutive attempts, so three failed attempts are
\* separated by the waits [2, 4].
C13_Backoff ==
    \A t \in TaskIds :
       /\ \A k \in 1..Len(co[t].waits) :
             /\ co[t].waits[k] =
                   Max2(retry_wait_min, Min2(retry_wait_max, retry_multiplier * Pow(2, k - 1)))
             /\ co[t].waits[k] <= retry_wait_max
             /\ k <= 4 => co[t].waits[k] = <<2, 4, 8, 10>>[k]
       /\ co[t].pc = "get" => Len(co[t].waits) = attempt_number(co[t]) - 1
       /\ co[t].pc = "backoff" => Len(co[t].waits) = attempt_number(co[t])
       /\ (co[t].pc = "done" /\ co[t].exc \in Responses) =>
             Len(co[t].waits) = config.max_retries - 1

\* C13 witness: with max_retries = 3 a fetch failed three times, having waited
\* 2 and then 4 seconds.
C13_Witness ==
    \E t \in TaskIds :
       /\ config.max_retries = 3 /\ co[t].pc = "done" /\ co[t].result = "False"
       /\ co[t].req_primary = 3 /\ co[t].waits = <<2, 4>>

\* C14: a download_file call whose GETs all fail makes exactly max_retries
\* attempts (never more), then raises the error of the last one: the task ends
\* with False (unless that error is a 404 that sends it to its fallback) and
\* nothing is written to its save_path.
C14_RetryExhaustion ==
    \A t \in TaskIds :
       /\ co[t].req_primary <= config.max_retries
       /\ co[t].req_fallback <= config.max_retries
       /\ co[t].primary_exc \in {"http404", "http500", "network"} =>
             /\ co[t].req_primary = config.max_retries
             /\ co[t].hop = "primary" => (co[t].writes = 0 /\ co[t].file = "absent")
       /\ (co[t].pc = "done" /\ co[t].exc \in {"http404", "http500", "network"}) =>
             /\ attempt_number(co[t]) = config.max_retries
             /\ co[t].result = "False"
             /\ co[t].writes = 0 /\ co[t].file = "absent"

\* C14 witness: with max_retries = 3, three GETs failed with network errors
\* and the task ended with False.
C14_Witness ==
    \E t \in TaskIds :
       /\ config.max_retries = 3 /\ co[t].pc = "done" /\ co[t].result = "False"
       /\ co[t].exc = "network" /\ co[t].primary_exc = "network"
       /\ co[t].req_primary = 3 /\ co[t].file = "absent"


\* ======================================================================
\* Properties of construction and termination
\* ======================================================================
\* C16: a manager whose concurrency limit is below 1 is rejected when it is
\* constructed, so no execute() ever runs, blocks or raises with such a limit.
C16_InvalidConfigRejected ==
    config.max_workers < 1 => exec_pc \notin {"running", "raised"}

\* C18: with every limit the constructor accepts, a running execute() can
\* always take a further step (a coroutine is admitted or is awaiting an HTTP
\* attempt or a sleep that completes, or the loop goes on, or execute()
\* returns), and it never ends by raising.
C18_ExecuteReturns ==
    /\ Running => ENABLED NextAny
    /\ exec_pc # "raised"


\* ======================================================================
\* Properties of the queue
\* ======================================================================
InQueue(t) == \E k \in 1..Len(tasks) : tasks[k] = t

\* A task that clear() took out of the queue before any execute() started it.
Discarded(t) == co[t].pc = "queued" /\ ~InQueue(t)

\* The tasks a step adds, in the order of their construction.
Added ==
    [k \in 1..(Cardinality(Constructed') - Cardinality(Constructed)) |->
        Cardinality(Constructed) + k]

\* C17: a step that enqueues tasks (add_task or add_tasks) appends exactly
\* those tasks, in order, to what the queue held, so len(manager) grows by their
\* number; outside execute() the only other change of the queue (clear) empties
\* it; and a task discarded by clear() stays out of the queue and is never
\* started or fetched by a later execute().
C17_AdditiveQueueAndClear ==
    [][ /\ Constructed' # Constructed =>
              /\ tasks' = tasks \o Added
              /\ Len(tasks') = Len(tasks) + Len(Added)
        /\ (exec_pc # "running" /\ exec_pc' = exec_pc /\ Constructed' = Constructed
               /\ tasks' # tasks) => tasks' = <<>>
        /\ \A t \in TaskIds : Discarded(t) =>
              /\ Discarded(t)'
              /\ co'[t] = co[t]
              /\ co[t].fetches = 0 /\ co[t].req_primary = 0
      ]_vars

\* C17 witness: a task added and then discarded by clear() is still unfetched
\* when a later execute() has fetched another task and returned.
C17_Witness ==
    /\ Returned
    /\ \E t \in TaskIds : Discarded(t) /\ co[t].fetches = 0
    /\ \E u \in Batch : co[u].fetches >= 1


\* ======================================================================
\* Properties of one task's life cycle
\* ======================================================================
\* The state of a task in the machine of _download_single: download_file has
\* not been called (Pending), the latest download_file call is the primary or
\* the fallback one (InFlight), or the coroutine returned True or False.
Stage(c) ==
    CASE c.pc = "done" /\ c.result = "True"  -> "Success"
      [] c.pc = "done" /\ c.result = "False" -> "Failed"
      [] c.pc = "done"                       -> "Raised"
      [] c.hop = "none"                      -> "Pending"
      [] c.hop = "primary"                   -> "InFlight(primary)"
      [] OTHER                               -> "InFlight(fallback)"

\* The edges of the machine; a step of the program that includes no await
\* between two edges takes both at once.
StageEdge(a, b) ==
    \/ a = "Pending" /\ b = "InFlight(primary)"
    \/ a = "InFlight(primary)" /\ b \in {"Success", "Failed", "InFlight(fallback)"}
    \/ a = "InFlight(fallback)" /\ b \in {"Success", "Failed"}

Stages ==
    {"Pending", "InFlight(primary)", "InFlight(fallback)", "Success", "Failed", "Raised"}

StagePath(a, b) ==
    \/ a = b
    \/ StageEdge(a, b)
    \/ \E m \in Stages : StageEdge(a, m) /\ StageEdge(m, b)
    \/ \E m, n \in Stages : StageEdge(a, m) /\ StageEdge(m, n) /\ StageEdge(n, b)

\* C19: every step moves each task along the edges of the machine
\* Pending -> InFlight(primary) -> {Success, Failed, InFlight(fallback) ->
\* {Success, Failed}}: download_file is called once for the primary URL before
\* it is called, at most once, for the fallback URL; a step issues at most one
\* GET for a task, a retry only after the wait that follows the failed attempt
\* before it, and none for the primary URL once the fallback has started; a
\* finished task never changes again and no started task is Pending again.
C19_TaskStateMachine ==
    [][ \A t \in TaskIds :
          LET c == co[t]
              d == co'[t]
          IN  /\ StagePath(Stage(c), Stage(d))
              /\ d.fetches = (CASE d.hop = "none" -> 0 [] d.hop = "primary" -> 1 [] OTHER -> 2)
              /\ d.fetches - c.fetches \in 0..2
              /\ Stage(d) \in {"Success", "Failed"} => d.fetches >= 1
              /\ d.hop = "fallback" => d.req_primary >= 1
              /\ d.req_primary + d.req_fallback - (c.req_primary + c.req_fallback) \in {0, 1}
              /\ d.req_primary >= c.req_primary /\ d.req_fallback >= c.req_fallback
              /\ d.req_primary > c.req_primary => d.hop = "primary" /\ d.pc = "get"
              /\ d.req_fallback > c.req_fallback => d.hop = "fallback" /\ d.pc = "get"
              /\ (d.req_primary > c.req_primary /\ c.req_primary >= 1) => c.pc = "backoff"
              /\ (d.req_fallback > c.req_fallback /\ c.req_fallback >= 1) => c.pc = "backoff"
              /\ c.pc = "done" => d = c
              /\ Stage(c) # "Pending" => Stage(d) # "Pending"
      ]_vars

\* C19 witness: a task whose primary URL was requested twice and answered 404
\* went on to the fallback URL, retried it too, and ended in Success.
C19_Witness ==
    \E t \in Batch : /\ Stage(co[t]) = "Success"
                     /\ co[t].hop = "fallback"
                     /\ co[t].req_primary = 2
                     /\ co[t].req_fallback = 2


\* ======================================================================
\* Properties of the rate limiting
\* ======================================================================
Sleeping == {t \in TaskIds : co[t].pc = "sleep"}

\* C20: a task sleeps at most once; it is asleep only after its download_file
\* call (primary or fallback) succeeded, with sleep_interval > 0, and it then
\* still holds its slot (the free slots and the tasks inside, the sleeping ones
\* included, add up to max_workers); a task awaiting a GET or a retry backoff
\* has not slept; a finished task has slept exactly when it succeeded and
\* sleep_interval > 0, so a failed task never sleeps.
C20_SleepOncePerSuccess ==
    /\ \A t \in TaskIds :
          LET c == co[t]
          IN  /\ c.slept \in {0, 1}
              /\ config.sleep_interval = 0 => c.slept = 0
              /\ c.pc \in {"new", "queued", "waiting", "get", "backoff"} => c.slept = 0
              /\ c.pc = "sleep" => /\ c.slept = 1
                                   /\ config.sleep_interval > 0
                                   /\ c.exc = "none"
                                   /\ c.file = "complete"
                                   /\ c.hop \in {"primary", "fallback"}
              /\ c.pc = "done" =>
                    (c.slept = 1 <=> (c.result = "True" /\ config.sleep_interval > 0))
    /\ Running => /\ Sleeping \subseteq InFetchPhase
                  /\ semaphore = config.max_workers - Cardinality(InFetchPhase)
                  /\ Cardinality(Sleeping) <= config.max_workers

\* C20 witness: with one worker, a task that succeeded through its fallback
\* URL is asleep and holds the only slot while another task waits for it.
C20_Witness ==
    /\ Running
    /\ config.max_workers = 1 /\ semaphore = 0
    /\ \E t, u \in Batch : /\ co[t].pc = "sleep" /\ co[t].hop = "fallback"
                           /\ co[u].pc = "waiting"


\* ======================================================================
\* Properties of the fallback's retries and of filesystem errors
\* ======================================================================
\* The waits of a download_file call that has failed n times.
Schedule(n) == [k \in 1..n |-> wait_exponential(k)]

\* C21: the download_file call for the fallback URL is retried exactly as the
\* one for the primary URL: it starts with a fresh attempt count, retries a
\* failed GET while fewer than max_retries attempts were made, waits
\* wait_exponential(k) after its k-th failed attempt, and the task ends with
\* False only after max_retries GETs of the fallback URL failed.
C21_FallbackRetriedAlike ==
    \A t \in TaskIds :
       LET c == co[t]
       IN  c.hop = "fallback" =>
             /\ c.req_primary = config.max_retries
             /\ c.req_fallback \in 0..config.max_retries
             /\ c.pc \in {"get", "backoff"} => c.req_fallback >= 1
             /\ c.pc = "get" => c.waits = Schedule(c.req_fallback - 1)
             /\ c.pc = "backoff" => /\ c.req_fallback < config.max_retries
                                    /\ c.waits = Schedule(c.req_fallback)
             /\ (c.pc = "done" /\ c.exc \in Responses) =>
                   /\ c.result = "False"
                   /\ c.req_fallback = config.max_retries
                   /\ c.req_fallback = c.req_primary
                   /\ c.waits = Schedule(config.max_retries - 1)

\* C21 witness: with max_retries = 4, the fallback URL failed four times with
\* the waits 2, 4 and 8 seconds in between, and the task ended with False.
C21_Witness ==
    \E t \in TaskIds :
       /\ config.max_retries = 4 /\ co[t].hop = "fallback"
       /\ co[t].pc = "done" /\ co[t].result = "False" /\ co[t].exc = "http500"
       /\ co[t].req_fallback = 4 /\ co[t].waits = <<2, 4, 8>>


\* C22: the step in which mkdir or write_bytes raises OSError ends the task:
\* the coroutine returns False in that same step, without a backoff, without
\* issuing a GET and, when the error is in the primary fetch, without calling
\* download_file for the fallback URL; the task never changes afterwards.
C22_FilesystemErrorTerminal ==
    [][ \A t \in TaskIds :
          LET c == co[t]
              d == co'[t]
          IN  /\ (d.exc = "os" /\ c.exc # "os") =>
                    /\ d.pc = "done" /\ d.result = "False"
                    /\ d.req_primary = c.req_primary
                    /\ d.req_fallback = c.req_fallback
                    /\ d.waits = c.waits \/ d.waits = <<>>
                    /\ c.hop = "fallback" => d.hop = "fallback"
                    /\ d.hop = "primary" => d.fetches = 1
                    /\ d.hop = "fallback" => d.primary_exc \in HTTPStatusErrors
              /\ c.exc = "os" => d = c
      ]_vars

\* C22 witness: the primary GET of a task that has a fallback URL succeeded, the
\* write failed part-way, and the task ended with False after that one GET.
C22_Witness ==
    \E t \in TaskIds :
       /\ co[t].pc = "done" /\ co[t].exc = "os" /\ co[t].result = "False"
       /\ co[t].fallback_url /\ co[t].hop = "primary"
       /\ co[t].req_primary = 1 /\ co[t].req_fallback = 0 /\ co[t].file = "partial"


\* ======================================================================
\* Properties of overlapping callers
\* ======================================================================
\* C23: whatever the interleaving of execute() calls, each task is given to one
\* coroutine of one execute() call only, so it is fetched and reported once.
C23_DrainedExactlyOnce ==
    \A t \in TaskIds : co[t].coroutines <= 1


\* C27: a task that no execute() call has started leaves the queue only by an
\* explicit clear(), a step outside any running execute(); in particular a
\* task added while execute() runs is not dropped when that call returns.
C27_NoTaskLost ==
    [][ \A t \in TaskIds :
          (co[t].pc = "queued" /\ InQueue(t) /\ co'[t].pc = "queued" /\ ~InQueue(t)') =>
             (exec_pc # "running" /\ exec_pc' = exec_pc) ]_vars


\* ======================================================================
\* Properties of the handler layer
\* ======================================================================
\* The pages that a page_range string names: "a:b" the pages a..b, "a" page a.
ConfiguredPages ==
    IF Len(config.page_range) = 2 THEN config.page_range[1]..config.page_range[2]
    ELSE config.page_range[1]..config.page_range[1]

Submitted == {handler.tasks[k].idx : k \in 1..Len(handler.tasks)}

\* C24: when a page range is configured, the tasks a handler builds are those
\* of the pages whose index (counted from start_index) is in the range, each
\* once, in order, its filename the 4-digit zero-padded original index.
C24_PageRangeFilter ==
    (handler.called # "none" /\ config.page_range # <<>>) =>
       /\ \A k \in 1..handler.image_urls :
             LET i == handler.start_index + k - 1
             IN  (i \in Submitted) <=> (i \in ConfiguredPages)
       /\ \A k \in 1..Len(handler.tasks) :
             LET task == handler.tasks[k]
             IN  /\ task.idx = handler.start_index + task.url - 1
                 /\ task.filename = <<0, 0, 0, task.idx>>


\* ======================================================================
\* Properties of the progress bar and of the client
\* ======================================================================
\* C25: an execute() call on a batch never ends because of the progress bar:
\* once it is over it has returned, every task of the batch has finished, one
\* update was made per task (one per loop iteration), and the value returned is
\* the number of tasks that succeeded.
C25_ProgressNeverAborts ==
    (exec_pc # "running" /\ N >= 1) =>
       /\ exec_pc = "returned"
       /\ loop_i = N
       /\ \A t \in Batch : co[t].pc = "done"
       /\ returned = Cardinality(Succeeded)

\* C28: the client of an execute() call is open while the call runs and is
\* closed when it is over; whenever it is closed, every task of the batch has
\* finished, so none has a GET or a write still to come.
C28_ClientOutlivesBatch ==
    /\ Running => client = "open"
    /\ (exec_pc # "running" /\ N >= 1) => client = "closed"
    /\ client = "closed" => \A t \in Batch : co[t].pc = "done"


\* ======================================================================
\* Properties of a raising callback
\* ======================================================================
\* C26: execute() never ends by raising, whatever the callback does; when a
\* call given a callback that may raise has returned, every task of the batch
\* was awaited and passed to the callback, none of them is left in the queue,
\* and the value returned is the number of tasks whose coroutine returned True.
C26_CallbackRaiseContained ==
    /\ exec_pc # "raised"
    /\ (Returned /\ callback = "raises") =>
          /\ loop_i = N
          /\ \A t \in Batch : co[t].pc = "done" /\ ~InQueue(t)
          /\ Len(callback_log) = N
          /\ returned = successful
          /\ returned = Cardinality(Succeeded)

\* C26 witness: the callback raised for both tasks of a batch, of which one
\* succeeded; execute() returned 1.
C26_Witness ==
    /\ Returned /\ callback = "raises"
    /\ N = 2 /\ successful + failed = N + 2
    /\ Len(callback_log) = 2
    /\ returned = 1 /\ Cardinality(Succeeded) = 1


\* ======================================================================
\* Properties of resumability
\* ======================================================================
\* C29: a task whose save_path did not exist when its download started and
\* whose coroutine returned False leaves no file at its save_path, so that the
\* exists() check of a later run does not skip it.
C29_FailureLeavesNoFile ==
    \A t \in TaskIds :
       (co[t].pc = "done" /\ co[t].result = "False" /\ ~co[t].existed) =>
          co[t].file = "absent"


\* ======================================================================
\* Properties of the batch command
\* ======================================================================
Books == 1..Len(cli.book)
Downloading == {b \in Books : cli.book[b].pc = "downloading"}

\* C30: while the batch command runs with --concurrent = K >= 1, at most K
\* books are being downloaded (the free slots and the books inside add up to
\* K); a book that fails or raises only makes its own coroutine return False;
\* and when the run has ended every book is done, successful counts the books
\* that succeeded, failed the others, and successful + failed is the number
\* of URLs.
C30_BatchBounded ==
    cli.pc \in {"running", "ended"} =>
       /\ cli.concurrent >= 1
       /\ Cardinality(Downloading) <= cli.concurrent
       /\ cli.semaphore + Cardinality(Downloading) = cli.concurrent
       /\ \A b \in Books : cli.book[b].pc = "done" =>
             (cli.book[b].result = "True" <=> cli.book[b].outcome = "success")
       /\ cli.successful + cli.failed = cli.awaited
       /\ cli.pc = "ended" =>
             /\ \A b \in Books : cli.book[b].pc = "done"
             /\ cli.successful = Cardinality({b \in Books : cli.book[b].outcome = "success"})
             /\ cli.successful + cli.failed = Len(cli.book)

\* C30 witness: a run over three URLs with K = 2 has ended: one book raised,
\* one failed, one succeeded, and the totals are 1 and 2.
C30_Witness ==
    /\ cli.pc = "ended" /\ cli.concurrent = 2 /\ Len(cli.book) = 3
    /\ \E a, b, c \in Books : /\ cli.book[a].outcome = "raises"
                              /\ cli.book[b].outcome = "no_success"
                              /\ cli.book[c].outcome = "success"
    /\ cli.successful = 1 /\ cli.failed = 2

====
